---- MODULE Spec2Model ----
(***************************************************************************)
(* Model of src/class/real_time_data_analysis.py: a polling loop that      *)
(* fetches a ticker, prints mean / median / standard deviation of the buy  *)
(* prices and keeps a rolling window of the last five buy prices per       *)
(* currency.                                                               *)
(*                                                                         *)
(* Python dicts keep insertion order, so a dict is a sequence of           *)
(* [key, value] entries with distinct keys.  Buy prices are integers and   *)
(* the arithmetic of numpy is exact rational arithmetic here: IEEE-754     *)
(* rounding is not modelled.                                               *)
(***************************************************************************)
EXTENDS Integers, Sequences, FiniteSets, TLC

VARIABLES
    pc,                       \* position of poll_api (line about to run)
    response,                 \* poll_api: response (line 56)
    real_time_data,           \* poll_api: real_time_data (line 58)
    prices_over_time,         \* poll_api: the local prices_over_time (line 53)
    module_prices_over_time,  \* the module-level prices_over_time (line 29)
    printed,                  \* console lines of the current cycle
    calls,                    \* calls made in the current cycle, in order
    in_flight,                \* HTTP requests issued and not yet returned
    waited,                   \* seconds slept since the last request was issued
    at_request,               \* prices_over_time when the last request was issued
    raised,                   \* the exception that ended the process, if any
    seen,                     \* feed only: every buy value fed, per currency
    last_data,                \* feed only: the snapshot of the previous call
    before_last,              \* feed only: the history before the previous call
    prev_data,                \* feed only: the snapshot of the call before that
    before_two,               \* feed only: the history before the last two calls
    first_seen                \* feed only: currencies in the order of their first occurrence

vars == <<pc, response, real_time_data, prices_over_time,
          module_prices_over_time, printed, calls, in_flight, waited,
          at_request, raised, seen, last_data, before_last, prev_data,
          before_two, first_seen>>

feedvars == <<seen, last_data, before_last, prev_data, before_two, first_seen>>

----------------------------------------------------------------------------
(* Bounds and sample data *)

Currencies == {"USD", "EUR"}        \* currency identifiers of the ticker
\* the buy prices a ticker may quote, per currency
Buys == [c \in Currencies |-> IF c = "USD" THEN {1, 2} ELSE {3}]
StatCurrencies == {"USD", "EUR", "GBP", "JPY"}
\* the buy prices of the inputs of calculate_statistics alone
StatBuys == [c \in StatCurrencies |-> {10, 20, 100}]
StatusCodes == {200, 201, 500}      \* HTTP status codes the server answers
MaxSeen == 6                        \* longest per-currency feed

history_size == 5                   \* line 39
sleep_seconds == 10                 \* line 71
OK == 200                           \* line 57

None == "None"
\* what numpy returns for an empty list, or when it divides by zero
NaN == [kind |-> "nan"]

----------------------------------------------------------------------------
(* Ordered dicts *)

Keys(d) == {d[i].key : i \in DOMAIN d}

IndexOf(d, k) == CHOOSE i \in DOMAIN d : d[i].key = k

Get(d, k) == d[IndexOf(d, k)].value

\* d[k] = v: an existing key keeps its place, a new key goes last
Put(d, k, v) ==
    IF k \in Keys(d)
    THEN [d EXCEPT ![IndexOf(d, k)] = [key |-> k, value |-> v]]
    ELSE Append(d, [key |-> k, value |-> v])

\* the sequences over S of length n without a repeated element
RECURSIVE Arrangements(_, _)
Arrangements(S, n) ==
    IF n = 0 THEN {<<>>}
    ELSE UNION {{Append(p, x) : x \in S \ {p[i] : i \in DOMAIN p}} :
                p \in Arrangements(S, n - 1)}

\* ticker records: with a buy field, or without one
Details(c, buys) ==
    {[buy |-> b, symbol |-> c] : b \in buys[c]} \cup {[symbol |-> c]}

\* the dicts with the keys ks, in that order, each with a record of its own
RECURSIVE WithKeys(_, _)
WithKeys(ks, buys) ==
    IF ks = <<>> THEN {<<>>}
    ELSE LET k == ks[Len(ks)] IN
         UNION {{Append(t, [key |-> k, value |-> d]) : d \in Details(k, buys)} :
                t \in WithKeys(SubSeq(ks, 1, Len(ks) - 1), buys)}

\* every ticker body over at most the currencies curs: currency -> record
Tickers(curs, buys) ==
    UNION {UNION {WithKeys(ks, buys) : ks \in Arrangements(curs, n)} :
           n \in 0..Cardinality(curs)}

HasBuy(t) == \A i \in DOMAIN t : "buy" \in DOMAIN t[i].value

\* the Snapshots of the data model: every record holds a buy price
Snapshots(curs, buys) == {t \in Tickers(curs, buys) : HasBuy(t)}

----------------------------------------------------------------------------
(* numpy on a list of numbers; a rational is [num, den], reduced, den > 0 *)

RECURSIVE GCD(_, _)
GCD(a, b) == IF b = 0 THEN a ELSE GCD(b, a % b)

Abs(x) == IF x < 0 THEN -x ELSE x

Rat(n, d) ==
    LET g == GCD(Abs(n), d) IN [num |-> n \div g, den |-> d \div g]

RECURSIVE Sum(_)
Sum(xs) == IF xs = <<>> THEN 0 ELSE xs[1] + Sum(Tail(xs))

\* the sorted xs with x put before its first element that is not smaller
RECURSIVE Insert(_, _)
Insert(xs, x) ==
    IF xs = <<>> THEN <<x>>
    ELSE IF x <= xs[1] THEN <<x>> \o xs
    ELSE <<xs[1]>> \o Insert(Tail(xs), x)

RECURSIVE Sorted(_)
Sorted(xs) == IF xs = <<>> THEN <<>> ELSE Insert(Sorted(Tail(xs)), xs[1])

IsSquare(n) == \E r \in 0..n : r * r = n

ISqrt(n) == CHOOSE r \in 0..n : r * r = n

\* np.sqrt of a rational: its rational root, or else the surd itself
np_sqrt(q) ==
    IF IsSquare(q.num) /\ IsSquare(q.den)
    THEN [kind |-> "rational", value |-> Rat(ISqrt(q.num), ISqrt(q.den))]
    ELSE [kind |-> "surd", of |-> q]

\* np.mean: the sum over the count; nan (and a warning) for an empty list
np_mean(xs) == IF xs = <<>> THEN NaN ELSE Rat(Sum(xs), Len(xs))

\* np.median: the middle of the sorted list, or the mean of the two middles
np_median(xs) ==
    LET s == Sorted(xs)
        n == Len(xs)
    IN  IF n = 0 THEN NaN
        ELSE IF n % 2 = 1 THEN Rat(s[(n + 1) \div 2], 1)
        ELSE Rat(s[n \div 2] + s[n \div 2 + 1], 2)

\* the divisor of np.var: N - ddof, and ddof defaults to 0
\* (variant: ddof=1, the sample deviation)
sample_ddof(xs) == Len(xs) - 1
ddof_divisor(xs) == Len(xs)

\* np.std: sqrt(mean(abs(x - x.mean()) ** 2))
np_std(xs) ==
    IF xs = <<>> THEN NaN
    ELSE LET m == np_mean(xs)
             sq == [i \in DOMAIN xs |-> (xs[i] * m.den - m.num) * (xs[i] * m.den - m.num)]
         IN  IF ddof_divisor(xs) = 0 THEN NaN
             ELSE np_sqrt(Rat(Sum(sq), m.den * m.den * ddof_divisor(xs)))

----------------------------------------------------------------------------
(* calculate_statistics, lines 11-22 *)

KeyError == "KeyError"

\* line 13: the buy prices in the dict's order; KeyError at a record without one
buy_prices(data) == [i \in DOMAIN data |-> data[i].value.buy]

\* (variant: records without a buy price are skipped, nothing is raised)
WithBuy(entry) == "buy" \in DOMAIN entry.value

calculate_statistics_skipping(data) ==
    LET prices == buy_prices(SelectSeq(data, WithBuy)) IN
    [raised |-> None,
     printed |-> <<[text |-> "Mean Buy Price: ", value |-> np_mean(prices)],
                   [text |-> "Median Buy Price: ", value |-> np_median(prices)],
                   [text |-> "Standard Deviation of Buy Prices: ",
                    value |-> np_std(prices)]>>]

calculate_statistics(data) ==
    IF ~HasBuy(data)
    THEN [raised |-> KeyError, printed |-> <<>>]
    ELSE LET prices == buy_prices(data) IN
         [raised |-> None,
          printed |-> <<[text |-> "Mean Buy Price: ", value |-> np_mean(prices)],
                        [text |-> "Median Buy Price: ", value |-> np_median(prices)],
                        [text |-> "Standard Deviation of Buy Prices: ",
                         value |-> np_std(prices)]>>]

----------------------------------------------------------------------------
(* track_price_changes, lines 31-46 *)

\* xs[-n:]
LastN(xs, n) == IF Len(xs) <= n THEN xs ELSE SubSeq(xs, Len(xs) - n + 1, Len(xs))

\* line 36: prices.append(buy)
\* (variant: a price equal to the last one is not appended again)
append_if_changed(prices, buy) ==
    IF prices # <<>> /\ prices[Len(prices)] = buy THEN prices ELSE Append(prices, buy)
append(prices, buy) == Append(prices, buy)

\* lines 33-36 from the i-th item of data on
RECURSIVE append_loop(_, _, _)
append_loop(data, history, i) ==
    IF i > Len(data) THEN [raised |-> None, history |-> history]
    ELSE LET currency == data[i].key
             details == data[i].value
             h == IF currency \notin Keys(history)
                  THEN Put(history, currency, <<>>)
                  ELSE history
         IN  IF "buy" \notin DOMAIN details
             THEN [raised |-> KeyError, history |-> h]
             ELSE append_loop(data,
                              Put(h, currency, append(Get(h, currency), details.buy)),
                              i + 1)

\* lines 39 and 41: prices[-history_size:]
\* (variants: prices[:history_size], and a window one entry too long)
keep_oldest(xs) == IF Len(xs) <= history_size THEN xs ELSE SubSeq(xs, 1, history_size)
keep_one_more(xs) == LastN(xs, history_size + 1)
keep(xs) == LastN(xs, history_size)

truncate_loop(history) ==
    [i \in DOMAIN history |->
        [key |-> history[i].key, value |-> keep(history[i].value)]]

\* f"{price:,.2f}" of a whole number
RECURSIVE Grouped(_)
Grouped(n) ==
    IF n < 1000 THEN ToString(n)
    ELSE LET r == n % 1000 IN
         Grouped(n \div 1000) \o ","
             \o (IF r < 10 THEN "00" ELSE IF r < 100 THEN "0" ELSE "") \o ToString(r)

Format2f(price) == Grouped(price) \o ".00"

RECURSIVE Join(_, _)
Join(sep, strs) ==
    IF strs = <<>> THEN ""
    ELSE IF Len(strs) = 1 THEN strs[1]
    ELSE strs[1] \o sep \o Join(sep, Tail(strs))

\* lines 44-46
trend_lines(history) ==
    [i \in DOMAIN history |->
        [text |-> history[i].key \o ": ",
         value |-> Join(" -> ", [j \in DOMAIN history[i].value |->
                                    Format2f(history[i].value[j])])]]

\* (variant: currencies the snapshot lacks are dropped from the history)
InData(data, entry) == entry.key \in Keys(data)

track_current_only(data, history) ==
    LET a == append_loop(data, history, 1) IN
    IF a.raised # None
    THEN [raised |-> a.raised, prices_over_time |-> a.history, printed |-> <<>>]
    ELSE LET t == truncate_loop(SelectSeq(a.history,
                                          LAMBDA entry : InData(data, entry)))
         IN  [raised |-> None, prices_over_time |-> t, printed |-> trend_lines(t)]

\* (variant: the lines are printed from the histories as they are before
\* lines 39-41)
track_printing_untruncated(data, history) ==
    LET a == append_loop(data, history, 1) IN
    IF a.raised # None
    THEN [raised |-> a.raised, prices_over_time |-> a.history, printed |-> <<>>]
    ELSE [raised |-> None, prices_over_time |-> truncate_loop(a.history),
          printed |-> trend_lines(a.history)]

track_price_changes(data, history) ==
    LET a == append_loop(data, history, 1) IN
    IF a.raised # None
    THEN [raised |-> a.raised, prices_over_time |-> a.history, printed |-> <<>>]
    ELSE LET t == truncate_loop(a.history) IN
         [raised |-> None, prices_over_time |-> t, printed |-> trend_lines(t)]

----------------------------------------------------------------------------
(* poll_api, lines 52-73 *)

\* a response body: the dict it decodes to, or no JSON at all
JSON(t) == [json |-> TRUE, data |-> t]
NotJSON == [json |-> FALSE, data |-> <<>>]

\* before line 56 has run once there is no response; status codes are > 0
NoResponse == [status_code |-> 0, body |-> NotJSON]

\* a name not bound yet; it is never read before its assignment
Unbound == <<>>

\* what the server may answer: a 200 carries a ticker or an undecodable body;
\* the body of any other status is never read
Responses ==
    {[status_code |-> OK, body |-> b] :
        b \in {JSON(t) : t \in Tickers(Currencies, Buys)} \cup {NotJSON}}
    \cup {[status_code |-> s, body |-> NotJSON] : s \in StatusCodes \ {OK}}

\* a call and the dict passed to it (<<>> when it takes none)
Call(fn, arg) == [fn |-> fn, arg |-> arg]

\* lines 29 and 53, and the call of line 79 about to run line 56
Init ==
    /\ pc = "get"
    /\ response = NoResponse
    /\ real_time_data = Unbound
    /\ prices_over_time = <<>>
    /\ module_prices_over_time = <<>>
    /\ printed = <<>>
    /\ calls = <<>>
    /\ in_flight = 0
    /\ waited = 0
    /\ at_request = <<>>
    /\ raised = None
    /\ seen = [c \in Currencies |-> <<>>]
    /\ last_data = [fed |-> FALSE, data |-> <<>>]
    /\ before_last = <<>>
    /\ prev_data = [fed |-> FALSE, data |-> <<>>]
    /\ before_two = <<>>
    /\ first_seen = <<>>

\* (variant: the history is created anew at the top of every iteration)
requests_get_resetting ==
    /\ pc = "get"
    /\ pc' = "awaiting"
    /\ in_flight' = in_flight + 1
    /\ calls' = <<Call("requests.get", <<>>)>>
    /\ printed' = <<>>
    /\ waited' = 0
    /\ at_request' = prices_over_time
    /\ prices_over_time' = <<>>
    /\ UNCHANGED <<response, real_time_data, module_prices_over_time, raised,
                   feedvars>>

\* line 56: the request goes out and the thread blocks in requests.get
requests_get ==
    /\ pc = "get"
    /\ pc' = "awaiting"
    /\ in_flight' = in_flight + 1
    /\ calls' = <<Call("requests.get", <<>>)>>
    /\ printed' = <<>>
    /\ waited' = 0
    /\ at_request' = prices_over_time
    /\ UNCHANGED <<response, real_time_data, prices_over_time,
                   module_prices_over_time, raised, feedvars>>

\* a few of the Responses: a failure, an undecodable body, two snapshots and
\* a ticker with a record that lacks its buy price
LiveResponses ==
    {[status_code |-> 500, body |-> NotJSON],
     [status_code |-> OK, body |-> NotJSON],
     [status_code |-> OK,
      body |-> JSON(<<[key |-> "USD", value |-> [buy |-> 1, symbol |-> "USD"]]>>)],
     [status_code |-> OK,
      body |-> JSON(<<[key |-> "EUR", value |-> [buy |-> 3, symbol |-> "EUR"]],
                      [key |-> "USD", value |-> [buy |-> 1, symbol |-> "USD"]]>>)],
     [status_code |-> OK,
      body |-> JSON(<<[key |-> "USD", value |-> [symbol |-> "USD"]]>>)]}

\* line 56: requests.get returns one of the responses R
returns(R) ==
    /\ pc = "awaiting"
    /\ \E r \in R : response' = r
    /\ in_flight' = in_flight - 1
    /\ pc' = "status"
    /\ UNCHANGED <<real_time_data, prices_over_time, module_prices_over_time,
                   printed, calls, waited, raised, at_request, feedvars>>

\* line 56: requests.get returns a response of any status
response_arrives == returns(Responses)

\* line 56: requests.get returns one of the few responses
few_responses_arrive == returns(LiveResponses)

\* line 56: requests.get raises (no connection); nothing catches it
connection_error ==
    /\ pc = "awaiting"
    /\ in_flight' = in_flight - 1
    /\ raised' = "ConnectionError"
    /\ pc' = "fault"
    /\ UNCHANGED <<response, real_time_data, prices_over_time,
                   module_prices_over_time, printed, calls, waited, at_request, feedvars>>

\* the branch line 57 takes on a status code
\* (variant: every 2xx status counts as success)
branch_on_2xx(status_code) == IF status_code \div 100 = 2 THEN "ok" ELSE "error"
branch(status_code) == IF status_code = OK THEN "ok" ELSE "error"

\* lines 57-62: decode the body and print it
\* (variant: line 68 runs next, without line 65)
status_ok_history_first ==
    /\ pc = "status"
    /\ branch(response.status_code) = "ok"
    /\ response.body.json
    /\ real_time_data' = response.body.data
    /\ printed' = <<[text |-> "-----", value |-> None],
                    [text |-> "New data received: ", value |-> response.body.data],
                    [text |-> "-----", value |-> None]>>
    /\ calls' = Append(calls, Call("response.json", <<>>))
    /\ pc' = "track_price_changes"
    /\ UNCHANGED <<response, prices_over_time, module_prices_over_time,
                   in_flight, waited, raised, at_request, feedvars>>

status_ok ==
    /\ pc = "status"
    /\ branch(response.status_code) = "ok"
    /\ response.body.json
    /\ real_time_data' = response.body.data
    /\ printed' = <<[text |-> "-----", value |-> None],
                    [text |-> "New data received: ", value |-> response.body.data],
                    [text |-> "-----", value |-> None]>>
    /\ calls' = Append(calls, Call("response.json", <<>>))
    /\ pc' = "calculate_statistics"
    /\ UNCHANGED <<response, prices_over_time, module_prices_over_time,
                   in_flight, waited, raised, at_request, feedvars>>

\* line 58: response.json() raises on a body that is no JSON
json_error ==
    /\ pc = "status"
    /\ branch(response.status_code) = "ok"
    /\ ~response.body.json
    /\ calls' = Append(calls, Call("response.json", <<>>))
    /\ raised' = "JSONDecodeError"
    /\ pc' = "fault"
    /\ UNCHANGED <<response, real_time_data, prices_over_time,
                   module_prices_over_time, printed, in_flight, waited, at_request, feedvars>>

\* lines 57 and 72: any other status goes to the else branch
status_error ==
    /\ pc = "status"
    /\ branch(response.status_code) = "error"
    /\ pc' = "error"
    /\ UNCHANGED <<response, real_time_data, prices_over_time,
                   module_prices_over_time, printed, calls, in_flight, waited,
                   raised, at_request, feedvars>>

\* line 65
\* (variant: the sleep of line 71 follows at once)
call_calculate_statistics_then_sleep ==
    /\ pc = "calculate_statistics"
    /\ \E r \in {calculate_statistics(real_time_data)} :
        /\ calls' = Append(calls, Call("calculate_statistics", real_time_data))
        /\ printed' = printed \o r.printed
        /\ raised' = r.raised
        /\ pc' = IF r.raised = None THEN "sleep" ELSE "fault"
    /\ UNCHANGED <<response, real_time_data, prices_over_time,
                   module_prices_over_time, in_flight, waited, at_request, feedvars>>

\* (variant: line 68 stands where line 65 is)
call_track_price_changes_instead ==
    /\ pc = "calculate_statistics"
    /\ \E r \in {track_price_changes(real_time_data, prices_over_time)} :
        /\ calls' = Append(calls, Call("track_price_changes", real_time_data))
        /\ prices_over_time' = r.prices_over_time
        /\ printed' = printed \o r.printed
        /\ raised' = r.raised
        /\ pc' = IF r.raised = None THEN "sleep" ELSE "fault"
    /\ UNCHANGED <<response, real_time_data, module_prices_over_time,
                   in_flight, waited, at_request, feedvars>>

call_calculate_statistics ==
    /\ pc = "calculate_statistics"
    /\ \E r \in {calculate_statistics(real_time_data)} :
        /\ calls' = Append(calls, Call("calculate_statistics", real_time_data))
        /\ printed' = printed \o r.printed
        /\ raised' = r.raised
        /\ pc' = IF r.raised = None THEN "track_price_changes" ELSE "fault"
    /\ UNCHANGED <<response, real_time_data, prices_over_time,
                   module_prices_over_time, in_flight, waited, at_request, feedvars>>

\* line 68
call_track_price_changes ==
    /\ pc = "track_price_changes"
    /\ \E r \in {track_price_changes(real_time_data, prices_over_time)} :
        /\ calls' = Append(calls, Call("track_price_changes", real_time_data))
        /\ prices_over_time' = r.prices_over_time
        /\ printed' = printed \o r.printed
        /\ raised' = r.raised
        /\ pc' = IF r.raised = None THEN "sleep" ELSE "fault"
    /\ UNCHANGED <<response, real_time_data, module_prices_over_time,
                   in_flight, waited, at_request, feedvars>>

\* line 71: the ten seconds are over
time_sleep ==
    /\ pc = "sleep"
    /\ waited' = waited + sleep_seconds
    /\ calls' = Append(calls, Call("time.sleep", <<>>))
    /\ pc' = "get"
    /\ UNCHANGED <<response, real_time_data, prices_over_time,
                   module_prices_over_time, printed, in_flight, raised, at_request, feedvars>>

\* line 73, and back to line 56: the else branch has no sleep
\* (variant: the else branch leaves the loop)
print_error_and_return ==
    /\ pc = "error"
    /\ printed' = Append(printed, [text |-> "Error fetching data: ",
                                   value |-> response.status_code])
    /\ pc' = "returned"
    /\ UNCHANGED <<response, real_time_data, prices_over_time,
                   module_prices_over_time, calls, in_flight, waited, raised,
                   at_request, feedvars>>

print_error ==
    /\ pc = "error"
    /\ printed' = Append(printed, [text |-> "Error fetching data: ",
                                   value |-> response.status_code])
    /\ pc' = "get"
    /\ UNCHANGED <<response, real_time_data, prices_over_time,
                   module_prices_over_time, calls, in_flight, waited, raised,
                   at_request, feedvars>>

Next ==
    \/ requests_get
    \/ response_arrives
    \/ connection_error
    \/ status_ok
    \/ json_error
    \/ status_error
    \/ call_calculate_statistics
    \/ call_track_price_changes
    \/ time_sleep
    \/ print_error

Spec == Init /\ [][Next]_vars

\* the loop on a few responses, to follow it forever: the interpreter always
\* runs the next statement of the one thread, and a blocking call returns
NextLive ==
    \/ requests_get
    \/ few_responses_arrive
    \/ connection_error
    \/ status_ok
    \/ json_error
    \/ status_error
    \/ call_calculate_statistics
    \/ call_track_price_changes
    \/ time_sleep
    \/ print_error

LiveSpec == Init /\ [][NextLive]_vars /\ WF_vars(NextLive)

----------------------------------------------------------------------------
(* track_price_changes alone: Snapshots fed in order to one history that   *)
(* starts empty; seen logs every buy price fed, per currency               *)

InitFeed ==
    /\ pc = "feed"
    /\ response = NoResponse
    /\ real_time_data = Unbound
    /\ prices_over_time = <<>>
    /\ module_prices_over_time = <<>>
    /\ printed = <<>>
    /\ calls = <<>>
    /\ in_flight = 0
    /\ waited = 0
    /\ at_request = <<>>
    /\ raised = None
    /\ seen = [c \in Currencies |-> <<>>]
    /\ last_data = [fed |-> FALSE, data |-> <<>>]
    /\ before_last = <<>>
    /\ prev_data = [fed |-> FALSE, data |-> <<>>]
    /\ before_two = <<>>
    /\ first_seen = <<>>

FeedSnapshots == Snapshots(Currencies, Buys)

feed ==
    /\ pc = "feed"
    /\ \E data \in FeedSnapshots :
        /\ \A c \in Keys(data) : Len(seen[c]) < MaxSeen
        /\ \E r \in {track_price_changes(data, prices_over_time)} :
            /\ prices_over_time' = r.prices_over_time
            /\ printed' = r.printed
            /\ raised' = r.raised
        /\ real_time_data' = data
        /\ calls' = <<Call("track_price_changes", data)>>
        /\ seen' = [c \in Currencies |->
                       IF c \in Keys(data)
                       THEN Append(seen[c], Get(data, c).buy)
                       ELSE seen[c]]
        /\ last_data' = [fed |-> TRUE, data |-> data]
        /\ before_last' = prices_over_time
        /\ prev_data' = last_data
        /\ before_two' = before_last
        /\ first_seen' = first_seen \o
               SelectSeq([i \in DOMAIN data |-> data[i].key],
                         LAMBDA c : \A j \in DOMAIN first_seen : first_seen[j] # c)
    /\ UNCHANGED <<pc, response, module_prices_over_time, in_flight, waited,
                   at_request>>

NextFeed == feed

FeedSpec == InitFeed /\ [][NextFeed]_vars

----------------------------------------------------------------------------
(* calculate_statistics alone, on every ticker of up to four currencies *)

StatTickers == Tickers(StatCurrencies, StatBuys)

InitStats ==
    /\ pc = "calculate_statistics"
    /\ response = NoResponse
    /\ real_time_data \in StatTickers
    /\ prices_over_time = <<>>
    /\ module_prices_over_time = <<>>
    /\ printed = <<>>
    /\ calls = <<>>
    /\ in_flight = 0
    /\ waited = 0
    /\ at_request = <<>>
    /\ raised = None
    /\ seen = [c \in Currencies |-> <<>>]
    /\ last_data = [fed |-> FALSE, data |-> <<>>]
    /\ before_last = <<>>
    /\ prev_data = [fed |-> FALSE, data |-> <<>>]
    /\ before_two = <<>>
    /\ first_seen = <<>>

NextStats == call_calculate_statistics

StatsSpec == InitStats /\ [][NextStats]_vars

----------------------------------------------------------------------------
(* Claims *)

Min(a, b) == IF a <= b THEN a ELSE b

History(c) == Get(prices_over_time, c)

\* C1: fed in order to a history that starts empty, every currency that has
\* occurred in a snapshot has a history of min(occurrences, 5) entries, and
\* they are the last min(occurrences, 5) buy prices fed for it, oldest first.
C1_LastFiveSeen ==
    \A c \in Currencies :
        seen[c] # <<>> =>
            /\ c \in Keys(prices_over_time)
            /\ LET n == Min(Len(seen[c]), 5) IN
                /\ Len(History(c)) = n
                /\ \A j \in 1..n : History(c)[j] = seen[c][Len(seen[c]) - n + j]

\* six snapshots with a currency leave its last five prices, the first evicted
C1_Witness ==
    /\ seen["USD"] = <<1, 2, 1, 2, 1, 2>>
    /\ History("USD") = <<2, 1, 2, 1, 2>>
    /\ seen["EUR"] = <<3, 3>>
    /\ History("EUR") = <<3, 3>>

Fn(i) == calls[i].fn

FirstRequest == response = NoResponse

\* C2: a request that is not the first one is issued only after a ten-second
\* sleep since the request before it, whatever status that one returned.
C2_SleepBeforeEveryFetch ==
    [][(requests_get /\ ~FirstRequest) => waited = sleep_seconds]_vars

ErrorLine == [text |-> "Error fetching data: ", value |-> response.status_code]

\* C3: in a cycle whose status is not 200 neither calculate_statistics nor
\* track_price_changes is called, the history stays what it was when the
\* request went out, the one thing printed is the status code, and the loop
\* goes on to a further request; the reporting positions are reached with
\* status 200 only.
C3_FailedCycle ==
    /\ (pc \in {"status", "error", "get"} /\ ~FirstRequest
            /\ response.status_code # 200) =>
        /\ calls = <<Call("requests.get", <<>>)>>
        /\ prices_over_time = at_request
        /\ pc \in {"status", "error"} => printed = <<>>
        /\ pc = "get" => printed = <<ErrorLine>> /\ ENABLED requests_get
    /\ pc \in {"calculate_statistics", "track_price_changes", "sleep"} =>
        response.status_code = 200
    /\ Len(calls) > 1 => response.status_code = 200

\* a cycle that answered 500 is over and the next request can go out
C3_Witness ==
    /\ pc = "get"
    /\ response.status_code = 500
    /\ printed = <<ErrorLine>>
    /\ Keys(prices_over_time) = {"USD", "EUR"}

\* C4: in a successful cycle calculate_statistics has returned before
\* track_price_changes is called, both get the dict decoded from the one
\* response of the cycle, and no request is issued between them.
C4_StatisticsThenHistory ==
    /\ pc = "track_price_changes" =>
        calls = <<Call("requests.get", <<>>), Call("response.json", <<>>),
                  Call("calculate_statistics", response.body.data)>>
    /\ pc = "sleep" =>
        calls = <<Call("requests.get", <<>>), Call("response.json", <<>>),
                  Call("calculate_statistics", response.body.data),
                  Call("track_price_changes", response.body.data)>>

C4_Witness ==
    /\ pc = "sleep"
    /\ Len(calls) = 4
    /\ Keys(calls[4].arg) = {"USD", "EUR"}
    /\ at_request # <<>>

\* C5: after a call of track_price_changes has returned, every currency of
\* its snapshot has a history of at most 5 prices that ends with the
\* snapshot's buy price; and between cycles every history holds 1 to 5 prices.
C5_LastIsBuy ==
    /\ pc = "sleep" =>
        \A c \in Keys(real_time_data) :
            /\ c \in Keys(prices_over_time)
            /\ Len(History(c)) <= 5
            /\ History(c)[Len(History(c))] = Get(real_time_data, c).buy
    /\ pc = "get" =>
        \A i \in DOMAIN prices_over_time :
            Len(prices_over_time[i].value) \in 1..5

\* a full history got a new price, beside a currency the snapshot lacks
C5_Witness ==
    /\ pc = "sleep"
    /\ Keys(real_time_data) = {"USD"}
    /\ Keys(prices_over_time) = {"USD", "EUR"}
    /\ "USD" \in Keys(at_request)
    /\ Get(at_request, "USD") = <<1, 1, 1, 1, 1>>
    /\ History("USD") = <<1, 1, 1, 1, 2>>

\* C6: a call keeps every tracked currency, and leaves the history of a
\* tracked currency that its snapshot lacks as it was.
C6_AbsentCurrencyKept ==
    last_data.fed =>
        /\ Keys(before_last) \subseteq Keys(prices_over_time)
        /\ \A c \in Keys(before_last) \ Keys(last_data.data) :
            History(c) = Get(before_last, c)

\* a full history of a currency the snapshot lacks went through the truncation
C6_Witness ==
    /\ last_data.fed
    /\ Keys(last_data.data) = {"USD"}
    /\ "EUR" \in Keys(before_last)
    /\ Get(before_last, "EUR") = <<3, 3, 3, 3, 3>>
    /\ History("EUR") = <<3, 3, 3, 3, 3>>

Copies(v, n) == [j \in 1..n |-> v]

Before(h, c) == IF c \in Keys(h) THEN Get(h, c) ELSE <<>>

SameTwice == last_data.fed /\ prev_data.fed /\ last_data.data = prev_data.data

\* what C7 says of lengths and of the last two entries, for currency c
TwoAppends(c) ==
    LET h == History(c)
        v == Get(last_data.data, c).buy
    IN  /\ Len(h) = Min(Len(Before(before_two, c)) + 2, 5)
        /\ h[Len(h)] = v
        /\ h[Len(h) - 1] = v

EndsInFour(h, v) == Len(h) >= 4 /\ \A j \in 0..3 : h[Len(h) - j] = v

StatLine(k) == printed[Len(printed) - 3 + k].value

\* the k-th smallest of xs, by counting
Kth(xs, k) ==
    CHOOSE v \in {xs[i] : i \in DOMAIN xs} :
        /\ Cardinality({i \in DOMAIN xs : xs[i] < v}) < k
        /\ Cardinality({i \in DOMAIN xs : xs[i] <= v}) >= k

Square(std) ==
    IF std.kind = "rational"
    THEN [num |-> std.value.num * std.value.num,
          den |-> std.value.den * std.value.den]
    ELSE std.of

Whole(n) == [num |-> n, den |-> 1]

\* C8: of a non-empty snapshot calculate_statistics reports the mean sum/N,
\* the median (the middle of the sorted prices for odd N, the mean of the
\* two middles for even N) and a standard deviation whose square is the sum
\* of the squared deviations from the mean over N; prices {100} give
\* 100, 100, 0 and prices {10, 20} give 15, 15, 5.
C8_MeanMedianStd ==
    (pc = "track_price_changes" /\ real_time_data # <<>>) =>
        LET xs == buy_prices(real_time_data)
            N == Len(xs)
            S == Sum(xs)
            mean == StatLine(1)
            median == StatLine(2)
            std == StatLine(3)
            dev2 == [i \in DOMAIN xs |-> (N * xs[i] - S) * (N * xs[i] - S)]
        IN  /\ NaN \notin {mean, median, std}
            /\ mean.num * N = S * mean.den
            /\ N % 2 = 1 => median = Whole(Kth(xs, (N + 1) \div 2))
            /\ N % 2 = 0 =>
                median.num * 2 = (Kth(xs, N \div 2) + Kth(xs, N \div 2 + 1)) * median.den
            /\ Square(std).num * N * N * N = Square(std).den * Sum(dev2)
            /\ std.kind = "rational" => std.value.num >= 0
            /\ xs = <<100>> =>
                /\ mean = Whole(100)
                /\ median = Whole(100)
                /\ std = [kind |-> "rational", value |-> Whole(0)]
            /\ xs \in {<<10, 20>>, <<20, 10>>} =>
                /\ mean = Whole(15)
                /\ median = Whole(15)
                /\ std = [kind |-> "rational", value |-> Whole(5)]

\* four unsorted prices: mean 35, median 15, variance 1425
C8_Witness ==
    /\ pc = "track_price_changes"
    /\ buy_prices(real_time_data) = <<100, 10, 20, 10>>
    /\ StatLine(1) = Whole(35)
    /\ StatLine(2) = Whole(15)
    /\ StatLine(3) = [kind |-> "surd", of |-> Whole(1425)]

\* C9: at most one request is in flight, and only while the thread blocks in
\* requests.get; the wait of a cycle begins, and the next request goes out,
\* only after calculate_statistics and track_price_changes have returned;
\* the history changes only in track_price_changes, never while a request
\* is in flight or the thread sleeps.
C9_Sequential ==
    /\ [](/\ in_flight \in {0, 1}
          /\ in_flight = 1 <=> pc = "awaiting"
          /\ pc = "sleep" =>
                /\ Len(calls) = 4
                /\ Fn(3) = "calculate_statistics"
                /\ Fn(4) = "track_price_changes")
    /\ [][/\ prices_over_time' # prices_over_time =>
                pc = "track_price_changes" /\ in_flight = 0
          /\ (requests_get /\ response.status_code = 200) =>
                /\ Len(calls) = 5
                /\ Fn(3) = "calculate_statistics"
                /\ Fn(4) = "track_price_changes"
                /\ Fn(5) = "time.sleep"]_vars

\* a request in flight in the cycle after one that changed the history
C9_Witness ==
    /\ pc = "awaiting"
    /\ in_flight = 1
    /\ response.status_code = 200
    /\ Keys(prices_over_time) = {"USD", "EUR"}
    /\ Len(History("USD")) = 5

\* C10: unless an exception ends the process, the loop comes back to issuing
\* a request again and again, whatever the statuses of the responses.
\* (pc = "fault" is final, so "a request again and again, or a fault once" is
\* the one recurrence below)
C10_FetchesForever == []<>(pc = "get" \/ pc = "fault")

\* back at the request after successful cycles and a failed one
C10_Witness ==
    /\ pc = "get"
    /\ response.status_code = 500
    /\ Keys(prices_over_time) = {"USD", "EUR"}
    /\ Len(History("USD")) = 5
    /\ Len(History("EUR")) = 2

Called(fn) == \E i \in DOMAIN calls : Fn(i) = fn

\* C11: a 200 response whose ticker has a record without a buy price ends the
\* cycle with an uncaught KeyError: no sleep and no further request follow,
\* the process is over; a status other than 200 is followed by the next
\* request.
C11_MissingBuyIsFatal ==
    /\ []((pc = "fault" /\ raised = KeyError) =>
            /\ response.status_code = 200
            /\ ~HasBuy(real_time_data)
            /\ ~Called("time.sleep")
            /\ waited = 0
            /\ in_flight = 0)
    /\ []((pc = "get" /\ ~FirstRequest /\ response.status_code # 200) =>
            raised = None /\ ENABLED requests_get)
    /\ [][/\ pc # "fault"
          /\ (pc = "calculate_statistics" /\ ~HasBuy(real_time_data)) =>
                pc' = "fault" /\ raised' = KeyError
          /\ pc = "error" => pc' = "get"]_vars

\* the process ended on a ticker whose EUR record has no buy price
C11_Witness ==
    /\ pc = "fault"
    /\ raised = KeyError
    /\ Keys(real_time_data) = {"USD", "EUR"}
    /\ "buy" \in DOMAIN Get(real_time_data, "USD")
    /\ "buy" \notin DOMAIN Get(real_time_data, "EUR")
    /\ Keys(prices_over_time) = {"USD", "EUR"}

\* the history of c is the one of the last request, or that one with a
\* single price appended and cut to the window
CarriedOver(c) ==
    /\ c \in Keys(prices_over_time)
    /\ \/ History(c) = Get(at_request, c)
       \/ \E v \in Buys[c] :
            History(c) = LastN(Append(Get(at_request, c), v), history_size)

\* C12: the history of the loop is the local dict of poll_api: empty at the
\* first request, written by track_price_changes only, handed from each
\* cycle to the next (the same after a failed cycle, every tracked currency
\* still present with its entries within the window after a successful one);
\* the module-level dict of the same name stays empty.
C12_OneHistoryNeverReset ==
    /\ [](/\ module_prices_over_time = <<>>
          /\ FirstRequest => prices_over_time = <<>>
          /\ ~Called("track_price_changes") => prices_over_time = at_request
          /\ \A c \in Keys(at_request) : CarriedOver(c))
    /\ [][/\ module_prices_over_time' = module_prices_over_time
          /\ prices_over_time' # prices_over_time =>
                /\ pc = "track_price_changes"
                /\ prices_over_time' =
                     track_price_changes(real_time_data,
                                         prices_over_time).prices_over_time
          /\ requests_get => at_request' = prices_over_time']_vars

\* a failed cycle in which the history built by earlier cycles is still there
C12_Witness ==
    /\ pc = "error"
    /\ response.status_code = 500
    /\ Keys(prices_over_time) = {"USD", "EUR"}
    /\ History("USD") = <<1, 2, 1, 2, 1>>
    /\ History("EUR") = <<3>>
    /\ prices_over_time = at_request
    /\ module_prices_over_time = <<>>

\* C13: the KeyError of a record without a buy price comes out of
\* calculate_statistics, before track_price_changes is called: the history
\* is not touched in that cycle and is, in the final state, what the cycle
\* before left.
C13_FaultLeavesHistory ==
    /\ []((pc = "fault" /\ raised = KeyError) =>
            /\ Fn(Len(calls)) = "calculate_statistics"
            /\ ~Called("track_price_changes")
            /\ Len(printed) = 3
            /\ prices_over_time = at_request)
    /\ [][(pc' = "fault" /\ raised' = KeyError) =>
            /\ pc = "calculate_statistics"
            /\ prices_over_time' = prices_over_time]_vars

\* the ticker that ended the process starts with a USD price the history
\* has not taken
C13_Witness ==
    /\ pc = "fault"
    /\ raised = KeyError
    /\ real_time_data[1].key = "USD"
    /\ "buy" \in DOMAIN real_time_data[1].value
    /\ real_time_data[1].value.buy = 2
    /\ Len(real_time_data) = 2
    /\ "buy" \notin DOMAIN real_time_data[2].value
    /\ "USD" \in Keys(prices_over_time)
    /\ History("USD") = <<1, 1, 1, 1, 1>>
    /\ prices_over_time = at_request

\* a quoted price as the console shows it
Shown(price) ==
    CASE price = 1 -> "1.00"
      [] price = 2 -> "2.00"
      [] price = 3 -> "3.00"

RECURSIVE Arrowed(_)
Arrowed(prices) ==
    IF prices = <<>> THEN ""
    ELSE IF Len(prices) = 1 THEN Shown(prices[1])
    ELSE Arrowed(SubSeq(prices, 1, Len(prices) - 1))
             \o " -> " \o Shown(prices[Len(prices)])

\* C14: a call prints one line for each currency that has occurred in any
\* snapshot so far, whether the current one has it or not, in the order in
\* which the currencies first occurred; the line of a currency shows its
\* last min(occurrences, 5) prices, oldest first.
C14_OneLinePerCurrency ==
    last_data.fed =>
        /\ Len(printed) = Len(first_seen)
        /\ \A i \in DOMAIN first_seen :
            /\ printed[i].text = first_seen[i] \o ": "
            /\ printed[i].value =
                 Arrowed(LastN(seen[first_seen[i]], history_size))

\* EUR came first and is not in the last snapshot, USD has occurred more
\* often than the window is long: two lines, EUR's first
C14_Witness ==
    /\ last_data.fed
    /\ first_seen = <<"EUR", "USD">>
    /\ Keys(last_data.data) = {"USD"}
    /\ Len(seen["USD"]) > history_size
    /\ Len(printed) = 2
    /\ printed[1] = [text |-> "EUR: ", value |-> "3.00 -> 3.00"]
    /\ printed[2].value = "1.00 -> 2.00 -> 1.00 -> 2.00 -> 1.00"

====
